---- MODULE Spec2Model ----
(***************************************************************************)
(* Model of UnityEngineMetaGitDiffer:                                      *)
(*   data/uuid.rs              Uuid (Display, from)                        *)
(*   data/uuid_storage.rs      UuidStorage (added, removed, set)           *)
(*   data/path_tree_storage.rs PathTreeStorage (add_to_tree, debug_print,  *)
(*                             highlight_path_change)                      *)
(*   main.rs                   main (change-record dispatch loop)          *)
(* Each component has its own specification over the shared variables.     *)
(***************************************************************************)
EXTENDS Integers, Sequences, FiniteSets, TLC

VARIABLES
    \* ---- data/uuid.rs ----
    upc,            \* position of the Uuid scenario: "idle" | "uuid" | "text" | "done"
    hash_bytes,     \* Uuid.hash_bytes of the value being rendered (or None)
    input,          \* the text handed to Uuid::from (or None)
    parsed,         \* the result of Uuid::from: None or Some(hash_bytes)
    \* ---- data/uuid_storage.rs, data/path_tree_storage.rs ----
    lookup,         \* UuidStorage.lookup : Uuid -> UuidStorageEntry (a partial map)
    root_entries,   \* PathTreeStorage.root_entries (node path -> uuid option)
    call,           \* the last call made on the storages, with its result
    calls,          \* number of calls made so far
    \* ---- highlight_path_change ----
    hpc,            \* "idle" | "args" | "done"
    main_path,      \* argument main_path (sequence of path elements)
    reference_path, \* argument reference_path
    highlighted,    \* the result of highlight_path_change
    \* ---- main.rs ----
    mpc,            \* "idle" | "loop" | "printed" | "panicked"
    uuid_storage,   \* main.rs UuidStorage.lookup : Uuid -> [added, removed : Seq(path)]
    delta,          \* the change record processed last (or None)
    processed,      \* number of change records processed
    printed,        \* what uuid_storage.debug_print() wrote
    \* ---- the classifier over the ledger and the two trees ----
    cpc,            \* "idle" | "classify" | the tag of the fatal error that ended the run
    ledger,         \* the UuidStorage.lookup the classifier fills
    addition_tree,  \* the PathTreeStorage of the added identifiers
    removal_tree,   \* the PathTreeStorage of the removed identifiers
    warnings,       \* number of non-fatal conflict warnings emitted
    classified      \* number of change records classified

vars == <<upc, hash_bytes, input, parsed,
          lookup, root_entries, call, calls,
          hpc, main_path, reference_path, highlighted,
          mpc, uuid_storage, delta, processed, printed,
          cpc, ledger, addition_tree, removal_tree, warnings, classified>>

uuidVars == <<upc, hash_bytes, input, parsed>>
dataVars == <<lookup, root_entries, call, calls>>
highlightVars == <<hpc, main_path, reference_path, highlighted>>
mainVars == <<mpc, uuid_storage, delta, processed, printed>>
classifierVars == <<cpc, ledger, addition_tree, removal_tree, warnings, classified>>

\* Option<T>: None is the empty tuple, Some(x) the one-element tuple.
None == <<>>

Some(x) == <<x>>

IsSome(o) == o # None

unwrap(o) == o[1]

\* The empty map (HashMap::default()).
EmptyMap == [x \in {} |-> None]

(***************************************************************************)
(* data/uuid.rs                                                            *)
(***************************************************************************)

\* hash_bytes: [u8; 16]
UuidByteLen == 16
\* input.len() != 32
UuidTextLen == 32
\* u8
ByteRange == 256

\* Characters are numbers: 0..15 are '0'..'9','a'..'f', 16..21 are 'A'..'F',
\* 22 is 'g' and 23 is '+' (two ASCII characters that are no hex digit).

\* Number of leading bytes / characters that vary in the inputs tried.
VaryBytes == 2
VaryChars == 3

ByteSamples == {0, 5, 10, 16, 171, 255}
CharSamples == {0, 5, 10, 15, 16, 22, 23}

\* u8::from_str_radix(s, 16) for a one-character string s = <<c>>:
\* Ok(value) for a hex digit of either case, Err otherwise.
from_str_radix(s) ==
    IF Len(s) = 0 THEN None
    ELSE LET IsDigit(c) == c \in 0..21
             Digit(c) == IF c \in 0..15 THEN c ELSE c - 6
             RECURSIVE Acc(_, _)
             Acc(i, v) == IF i > Len(s) THEN Some(v)
                          ELSE IF ~IsDigit(s[i]) THEN None
                          ELSE IF v * 16 + Digit(s[i]) >= ByteRange THEN None
                          ELSE Acc(i + 1, v * 16 + Digit(s[i]))
         IN Acc(1, 0)

\* format!("{b:02x}")
format_02x(b) == <<b \div 16, b % 16>>

\* impl Display for Uuid: the concatenation of format_02x over hash_bytes.
RECURSIVE fmt_from(_, _)
fmt_from(bytes, i) ==
    IF i > Len(bytes) THEN <<>> ELSE format_02x(bytes[i]) \o fmt_from(bytes, i + 1)

fmt(bytes) == fmt_from(bytes, 1)

\* The slice of the input that is parsed for the byte at 0-based position index:
\* &input[input_index..(input_index + 1)] with input_index = index << 1.
byte_slice(text, index) ==
    LET input_index == index * 2
    IN SubSeq(text, input_index + 1, input_index + 1)

\* Uuid::from(input: &str) -> Option<Self>
RECURSIVE from_loop(_, _, _)
from_loop(text, index, bytes) ==
    IF index = UuidByteLen THEN Some(bytes)
    ELSE LET item == from_str_radix(byte_slice(text, index))
         IN IF item = None THEN None
            ELSE from_loop(text, index + 1,
                           [bytes EXCEPT ![index + 1] = unwrap(item)])

from(text) ==
    IF Len(text) # UuidTextLen THEN None
    ELSE from_loop(text, 0, [i \in 1..UuidByteLen |-> 0])

\* Inputs: uuids whose first VaryBytes bytes vary, texts whose first VaryChars
\* characters vary and whose length is 31, 32 or 33.
UuidInputs ==
    { [i \in 1..UuidByteLen |-> IF i <= VaryBytes THEN f[i] ELSE 0] :
        f \in [1..VaryBytes -> ByteSamples] }

TextInputs ==
    { [i \in 1..n |-> IF i <= VaryChars THEN f[i] ELSE 0] :
        f \in [1..VaryChars -> CharSamples],
        n \in {UuidTextLen - 1, UuidTextLen, UuidTextLen + 1} }

\* The record of a call on the storages: its arguments and its results.
NoCall == [op |-> "", uuid |-> 0, path |-> <<>>, is_adding |-> FALSE, seed |-> 0,
           returned |-> None, lines |-> <<>>, panic |-> ""]

NoDelta == [status |-> "", old_path |-> None, new_path |-> None,
            uuid_from |-> None, uuid_to |-> None]

DataIdle ==
    /\ lookup = EmptyMap /\ root_entries = EmptyMap
    /\ call = NoCall /\ calls = 0

UuidIdle ==
    /\ upc = "idle" /\ hash_bytes = None /\ input = None /\ parsed = None

HighlightIdle ==
    /\ hpc = "idle" /\ main_path = None /\ reference_path = None
    /\ highlighted = None

MainIdle ==
    /\ mpc = "idle" /\ uuid_storage = EmptyMap /\ delta = NoDelta
    /\ processed = 0 /\ printed = None

ClassifierIdle ==
    /\ cpc = "idle" /\ ledger = EmptyMap
    /\ addition_tree = EmptyMap /\ removal_tree = EmptyMap
    /\ warnings = 0 /\ classified = 0

UuidInit ==
    /\ \/ /\ upc = "uuid" /\ hash_bytes \in UuidInputs /\ input = None
       \/ /\ upc = "text" /\ hash_bytes = None /\ input \in TextInputs
    /\ parsed = None
    /\ DataIdle /\ HighlightIdle /\ MainIdle /\ ClassifierIdle

\* to_string(): the text of a Uuid.
Display ==
    /\ upc = "uuid"
    /\ input' = fmt(hash_bytes)
    /\ upc' = "text"
    /\ UNCHANGED <<hash_bytes, parsed>>
    /\ UNCHANGED <<dataVars, highlightVars, mainVars, classifierVars>>

\* Uuid::from on the text at hand.
From ==
    /\ upc = "text"
    /\ parsed' = from(input)
    /\ upc' = "done"
    /\ UNCHANGED <<hash_bytes, input>>
    /\ UNCHANGED <<dataVars, highlightVars, mainVars, classifierVars>>

UuidNext == Display \/ From

SpecUuid == UuidInit /\ [][UuidNext]_vars

\* C2: rendering a Uuid and parsing that text recovers the original 16 bytes.
C2_RoundTrip ==
    (upc = "done" /\ hash_bytes # None) => parsed = Some(hash_bytes)

\* C5: Uuid::from returns an identifier exactly when the text has 32
\* characters and every one of them is a hex digit; it fails otherwise.
C5_ParseRejects ==
    upc = "done" =>
        (IsSome(parsed) <=>
            (Len(input) = UuidTextLen /\ \A i \in 1..Len(input) : input[i] \in 0..21))

(***************************************************************************)
(* Paths                                                                   *)
(***************************************************************************)

\* A path is the sequence of its elements (Path::iter()).  An element is a
\* number: 2 * n is the name n without an extension, 2 * n + 1 the same name
\* followed by an extension (".meta"); the numeric order is the order of the
\* element strings.
MaxName == 2

HasExtension(element) == element % 2 = 1

\* PathBuf::set_extension(""): drops the extension of the last element.
set_extension(path) ==
    IF Len(path) = 0 THEN path
    ELSE [path EXCEPT ![Len(path)] =
            IF HasExtension(path[Len(path)]) THEN path[Len(path)] - 1
            ELSE path[Len(path)]]

Names == 1..MaxName

\* The paths handed to the storages: metadata files (the last element has the
\* extension) at the top level and in the directory of the first name.
DirPaths == {<<>>, <<2>>}

InputPaths == { Append(d, 2 * m + 1) : d \in DirPaths, m \in Names }

(***************************************************************************)
(* data/uuid_storage.rs                                                    *)
(***************************************************************************)

MaxUuid == 2
Uuids == 1..MaxUuid

\* The identifiers used where a tree is involved.
MaxTreeUuid == 1
TreeUuids == 1..MaxTreeUuid

\* UuidStorageEntry::default()
DefaultEntry == [added |-> None, removed |-> None]

\* lookup.insert(uuid, default) in place of entry(uuid).or_default().
get_or_create_node_insert(map, uuid) ==
    [u \in DOMAIN map \cup {uuid} |-> IF u = uuid THEN DefaultEntry ELSE map[u]]

\* self.lookup.entry(uuid).or_default(): the map with the entry present.
get_or_create_node(map, uuid) ==
    IF uuid \in DOMAIN map THEN map
    ELSE [u \in DOMAIN map \cup {uuid} |-> IF u = uuid THEN DefaultEntry ELSE map[u]]

\* set that stores the path even when the option is set.
set_overwrite(option, path) ==
    [option |-> Some(set_extension(path)), returned |-> option]

\* UuidStorage::set: the new value of the option and the value returned.
set(option, path) ==
    LET stripped == set_extension(path)
    IN IF option = None
       THEN [option |-> Some(stripped), returned |-> None]
       ELSE [option |-> option, returned |-> option]

\* UuidStorage::added
added(map, uuid, path) ==
    LET created == get_or_create_node(map, uuid)
        r == set(created[uuid].added, path)
    IN [lookup |-> [created EXCEPT ![uuid].added = r.option], returned |-> r.returned]

\* UuidStorage::removed
removed(map, uuid, path) ==
    LET created == get_or_create_node(map, uuid)
        r == set(created[uuid].removed, path)
    IN [lookup |-> [created EXCEPT ![uuid].removed = r.option], returned |-> r.returned]

(***************************************************************************)
(* data/path_tree_storage.rs                                               *)
(***************************************************************************)

\* A PathTreeStorage is the map from the path of each of its nodes (the
\* element names from a root entry down to the node) to the node's uuid
\* option; the entries of a node are the nodes one element longer.

\* TreeNode::default().uuid
DefaultNodeUuid == None

\* add_to_tree with insert(TreeNode::default()) in place of
\* entry(..).or_default(): every node on the way is made anew.
add_to_tree_insert(tree, path, uuid) ==
    LET stripped == set_extension(path)
        walked_nodes == { SubSeq(stripped, 1, i) : i \in 1..Len(stripped) }
        walked == [n \in DOMAIN tree \cup walked_nodes |->
                      IF n \in walked_nodes THEN DefaultNodeUuid ELSE tree[n]]
    IN IF Len(stripped) = 0
       THEN [tree |-> tree, panic |-> "unwrap"]
       ELSE IF IsSome(walked[stripped])
       THEN [tree |-> walked, panic |-> "two UUIDs"]
       ELSE [tree |-> [walked EXCEPT ![stripped] = Some(uuid)], panic |-> ""]

\* add_to_tree without set_extension(""): the nodes follow the path as given.
add_to_tree_unstripped(tree, path, uuid) ==
    LET walked_nodes == { SubSeq(path, 1, i) : i \in 1..Len(path) }
        walked == [n \in DOMAIN tree \cup walked_nodes |->
                      IF n \in DOMAIN tree THEN tree[n] ELSE DefaultNodeUuid]
    IN IF Len(path) = 0
       THEN [tree |-> tree, panic |-> "unwrap"]
       ELSE IF IsSome(walked[path])
       THEN [tree |-> walked, panic |-> "two UUIDs"]
       ELSE [tree |-> [walked EXCEPT ![path] = Some(uuid)], panic |-> ""]

\* PathTreeStorage::add_to_tree: the tree afterwards and whether it panicked.
add_to_tree(tree, path, uuid) ==
    LET stripped == set_extension(path)
        \* entry(..).or_default() for the first element and for every other one
        walked_nodes == { SubSeq(stripped, 1, i) : i \in 1..Len(stripped) }
        walked == [n \in DOMAIN tree \cup walked_nodes |->
                      IF n \in DOMAIN tree THEN tree[n] ELSE DefaultNodeUuid]
    IN IF Len(stripped) = 0
       THEN [tree |-> tree, panic |-> "unwrap"]
       ELSE IF IsSome(walked[stripped])
       THEN [tree |-> walked, panic |-> "two UUIDs"]
       ELSE [tree |-> [walked EXCEPT ![stripped] = Some(uuid)], panic |-> ""]

\* One piece of the highlighted text: an ANSI colour code, a path element,
\* or the separator character.
Tok(t, v) == [t |-> t, v |-> v]

Reverse(seq) == [i \in 1..Len(seq) |-> seq[Len(seq) + 1 - i]]

min(a, b) == IF a < b THEN a ELSE b

\* count_same_parts(max_iteration, iterator_a, iterator_b)
RECURSIVE count_loop(_, _, _, _)
count_loop(max_iteration, iterator_a, iterator_b, count) ==
    IF count >= max_iteration THEN count
    ELSE IF iterator_a[count + 1] = iterator_b[count + 1]
    THEN count_loop(max_iteration, iterator_a, iterator_b, count + 1)
    ELSE count

count_same_parts(max_iteration, iterator_a, iterator_b) ==
    count_loop(max_iteration, iterator_a, iterator_b, 0)

\* The iteration budget of the scan from the end.
end_budget(min_part_count, start_index) == min_part_count

\* for _ in 0..n { push colour; push main_iter.next(); push "«w»/" }
RECURSIVE push_parts(_, _, _, _)
push_parts(colour, main, first, n) ==
    IF n <= 0 THEN <<>>
    ELSE <<Tok(colour, 0), Tok("seg", main[first]), Tok("w", 0), Tok("/", 0)>>
            \o push_parts(colour, main, first + 1, n - 1)

\* output.pop()
pop(output) == SubSeq(output, 1, Len(output) - 1)

\* PathTreeStorage::highlight_path_change
highlight_path_change(main, reference) ==
    LET min_part_count == min(Len(main), Len(reference))
        start_index == count_same_parts(min_part_count, main, reference)
        end_index == count_same_parts(end_budget(min_part_count, start_index),
                                      Reverse(main), Reverse(reference))
        center_parts == Len(main) - start_index - end_index
        counts == [start_index |-> start_index, end_index |-> end_index,
                   center_parts |-> center_parts]
        out1 == push_parts("gr", main, 1, start_index)
        out2 == out1 \o push_parts("lb", main, start_index + 1, center_parts)
        out3 == IF center_parts = 0 /\ out2 # <<>>
                THEN Append(pop(out2), Tok("lb/", 0)) ELSE out2
        out4 == out3 \o push_parts("gr", main, start_index + center_parts + 1, end_index)
    IN IF center_parts < 0
       THEN [panic |-> "unreachable", counts |-> counts, output |-> <<>>]
       ELSE IF out4 = <<>>
       THEN [panic |-> "unwrap", counts |-> counts, output |-> <<>>]
       ELSE [panic |-> "", counts |-> counts,
             output |-> Append(pop(out4), Tok("reset", 0))]

\* Paths given to highlight_path_change: stored (extension-free) paths.
MaxLen == 3

StoredPaths == UNION { [1..n -> {2 * m : m \in Names}] : n \in 1..MaxLen }

HighlightInit ==
    /\ hpc = "args"
    /\ main_path \in StoredPaths
    /\ reference_path \in StoredPaths
    /\ highlighted = None
    /\ UuidIdle /\ DataIdle /\ MainIdle /\ ClassifierIdle

HighlightPathChange ==
    /\ hpc = "args"
    /\ highlighted' = highlight_path_change(main_path, reference_path)
    /\ hpc' = "done"
    /\ UNCHANGED <<main_path, reference_path>>
    /\ UNCHANGED <<uuidVars, dataVars, mainVars, classifierVars>>

HighlightNext == HighlightPathChange

SpecHighlight == HighlightInit /\ [][HighlightNext]_vars

\* C9: center = segment_count(a) - start_match - end_match is never
\* negative, so the unreachable! branch is never taken.
C9_CenterNonNegative ==
    hpc = "done" =>
        /\ highlighted.counts.center_parts >= 0
        /\ highlighted.panic # "unreachable"

\* The longest common positional prefix of a and b, at most cap long.
RECURSIVE CommonPrefix(_, _, _)
CommonPrefix(a, b, cap) ==
    IF cap = 0 \/ a = <<>> \/ b = <<>> \/ Head(a) # Head(b) THEN 0
    ELSE 1 + CommonPrefix(Tail(a), Tail(b), cap - 1)

\* C10: start_match is the common prefix capped at k, end_match the common
\* suffix capped at k - start_match, hence start_match + end_match <= k.
C10_MatchesDoNotOverlap ==
    hpc = "done" =>
        LET k == min(Len(main_path), Len(reference_path))
            c == highlighted.counts
        IN /\ c.start_index = CommonPrefix(main_path, reference_path, k)
           /\ c.end_index = CommonPrefix(Reverse(main_path), Reverse(reference_path),
                                         k - c.start_index)
           /\ c.start_index + c.end_index <= k

\* C10: the two worked examples of the claim.
C10_Examples ==
    hpc = "done" =>
        /\ (main_path = <<2, 4, 2>> /\ reference_path = <<2, 2, 2>>) =>
              highlighted.counts = [start_index |-> 1, end_index |-> 1, center_parts |-> 1]
        /\ (main_path = <<2, 4>> /\ reference_path = <<2, 4, 2>>) =>
              highlighted.counts = [start_index |-> 2, end_index |-> 0, center_parts |-> 0]

\* The entries map of a node (of the root for node = <<>>): its key set.
entries(tree, node) ==
    { p[Len(p)] : p \in { q \in DOMAIN tree :
                            /\ Len(q) = Len(node) + 1
                            /\ SubSeq(q, 1, Len(node)) = node } }

\* HashMap::iter(): the keys in the order the hash seed gives them.  Two
\* seeds are modelled: 0 yields ascending keys, 1 descending keys.
HashSeeds == {0, 1}

RECURSIVE iter(_, _)
iter(keys, seed) ==
    IF keys = {} THEN <<>>
    ELSE LET k == IF seed = 0
                  THEN CHOOSE x \in keys : \A y \in keys : x <= y
                  ELSE CHOOSE x \in keys : \A y \in keys : x >= y
         IN <<k>> \o iter(keys \ {k}, seed)

\* Insert key into an ascending list.
RECURSIVE sorted_insert(_, _)
sorted_insert(list, key) ==
    IF list = <<>> THEN <<key>>
    ELSE IF key < Head(list) THEN <<key>> \o list
    ELSE <<Head(list)>> \o sorted_insert(Tail(list), key)

\* The list left in the order the map iterates in.
sort_by_key_skipped(list) == list

\* list.sort_by_key(|(path, _)| *path)
RECURSIVE sort_by_key(_)
sort_by_key(list) ==
    IF list = <<>> THEN <<>>
    ELSE sorted_insert(sort_by_key(Tail(list)), Head(list))

\* add_flipped(stack, map, prefix): the stack extended by the entries of
\* node, sorted and reversed, each with its two prefixes.
add_flipped(stack, tree, node, prefix, seed) ==
    LET list == sort_by_key(iter(entries(tree, node), seed))
        len == Len(list)
        item(index) ==
            [path_element |-> list[index + 1],
             node |-> Append(node, list[index + 1]),
             prefix_main |-> Append(prefix, IF index = len - 1 THEN "L-" ELSE "+-"),
             prefix_sub |-> Append(prefix, IF index = len - 1 THEN "  " ELSE "| ")]
    IN stack \o [j \in 1..len |-> item(len - j)]

NoSuffix == [kind |-> "", uuid |-> 0, text |-> <<>>, panic |-> ""]

\* The suffix of the line of a node that carries uuid.
suffix_of(map, is_adding, uuid) ==
    IF uuid \notin DOMAIN map
    THEN [NoSuffix EXCEPT !.panic = "unwrap"]
    ELSE LET storage_entry == map[uuid]
             optional_primary_path ==
                 IF is_adding THEN storage_entry.removed ELSE storage_entry.added
             optional_secondary_path ==
                 IF is_adding THEN storage_entry.added ELSE storage_entry.removed
         IN IF IsSome(optional_primary_path)
            THEN IF optional_secondary_path = None
                 THEN [NoSuffix EXCEPT !.panic = "unwrap"]
                 ELSE LET h == highlight_path_change(unwrap(optional_primary_path),
                                                     unwrap(optional_secondary_path))
                      IN [kind |-> IF is_adding THEN "<=" ELSE "=>",
                          uuid |-> uuid, text |-> h.output, panic |-> h.panic]
            ELSE [kind |-> IF is_adding THEN "ADDED" ELSE "REMOVED",
                  uuid |-> uuid, text |-> <<>>, panic |-> ""]

\* PathTreeStorage::debug_print: the lines printed and the panic that ended
\* the printing, if any.
debug_print(tree, map, is_adding, seed) ==
    LET RECURSIVE print_loop(_, _)
        print_loop(stack, lines) ==
            IF stack = <<>> THEN [lines |-> lines, panic |-> ""]
            ELSE LET top == stack[Len(stack)]
                     popped == SubSeq(stack, 1, Len(stack) - 1)
                     suffix == IF IsSome(tree[top.node])
                               THEN suffix_of(map, is_adding, unwrap(tree[top.node]))
                               ELSE NoSuffix
                     line == [prefix |-> top.prefix_main,
                              path_element |-> top.path_element,
                              kind |-> suffix.kind, uuid |-> suffix.uuid,
                              text |-> suffix.text]
                 IN IF suffix.panic # ""
                    THEN [lines |-> lines, panic |-> suffix.panic]
                    ELSE print_loop(add_flipped(popped, tree, top.node,
                                                top.prefix_sub, seed),
                                    Append(lines, line))
    IN print_loop(add_flipped(<<>>, tree, <<>>, <<>>, seed), <<>>)

(***************************************************************************)
(* The storages in use: calls of their public functions in any order.      *)
(***************************************************************************)

MaxCalls == 3

Running == calls < MaxCalls /\ call.panic = ""

DataInit ==
    /\ lookup = EmptyMap /\ root_entries = EmptyMap
    /\ call = NoCall /\ calls = 0
    /\ UuidIdle /\ HighlightIdle /\ MainIdle /\ ClassifierIdle

\* uuid_storage.added(uuid, path)
Added(uuid, path) ==
    /\ Running
    /\ LET r == added(lookup, uuid, path)
       IN /\ lookup' = r.lookup
          /\ call' = [NoCall EXCEPT !.op = "added", !.uuid = uuid, !.path = path,
                                    !.returned = r.returned]
    /\ calls' = calls + 1
    /\ UNCHANGED root_entries
    /\ UNCHANGED <<uuidVars, highlightVars, mainVars, classifierVars>>

\* uuid_storage.removed(uuid, path)
Removed(uuid, path) ==
    /\ Running
    /\ LET r == removed(lookup, uuid, path)
       IN /\ lookup' = r.lookup
          /\ call' = [NoCall EXCEPT !.op = "removed", !.uuid = uuid, !.path = path,
                                    !.returned = r.returned]
    /\ calls' = calls + 1
    /\ UNCHANGED root_entries
    /\ UNCHANGED <<uuidVars, highlightVars, mainVars, classifierVars>>

\* tree.add_to_tree(path, uuid)
AddToTree(path, uuid) ==
    /\ Running
    /\ LET r == add_to_tree(root_entries, path, uuid)
       IN /\ root_entries' = r.tree
          /\ call' = [NoCall EXCEPT !.op = "add_to_tree", !.uuid = uuid, !.path = path,
                                    !.panic = r.panic]
    /\ calls' = calls + 1
    /\ UNCHANGED lookup
    /\ UNCHANGED <<uuidVars, highlightVars, mainVars, classifierVars>>

\* tree.debug_print(&uuid_storage, is_adding)
DebugPrint(is_adding, seed) ==
    /\ call.panic = ""
    /\ LET r == debug_print(root_entries, lookup, is_adding, seed)
       IN call' = [NoCall EXCEPT !.op = "debug_print", !.is_adding = is_adding,
                                 !.seed = seed, !.lines = r.lines, !.panic = r.panic]
    /\ UNCHANGED <<lookup, root_entries, calls>>
    /\ UNCHANGED <<uuidVars, highlightVars, mainVars, classifierVars>>

\* A PathTreeStorage filled and printed against a UuidStorage; is_adding tells
\* debug_print whether the tree is the one of the additions or of the removals.
DataNext ==
    \/ \E uuid \in TreeUuids, path \in InputPaths : Added(uuid, path)
    \/ \E uuid \in TreeUuids, path \in InputPaths : Removed(uuid, path)
    \/ \E path \in InputPaths, uuid \in TreeUuids : AddToTree(path, uuid)
    \/ \E is_adding \in BOOLEAN, seed \in HashSeeds : DebugPrint(is_adding, seed)

Spec == DataInit /\ [][DataNext]_vars

\* A UuidStorage on its own.
LedgerNext ==
    \/ \E uuid \in Uuids, path \in InputPaths : Added(uuid, path)
    \/ \E uuid \in Uuids, path \in InputPaths : Removed(uuid, path)

SpecLedger == DataInit /\ [][LedgerNext]_vars

\* The step just taken is a call of UuidStorage::added / ::removed.
AddedStep == calls' = calls + 1 /\ call'.op = "added"

RemovedStep == calls' = calls + 1 /\ call'.op = "removed"

HasAdded(map, u) == u \in DOMAIN map /\ IsSome(map[u].added)

HasRemoved(map, u) == u \in DOMAIN map /\ IsSome(map[u].removed)

\* C1: every identifier has at most one added path and at most one removed
\* path; a side that is set is never overwritten or cleared and no entry is
\* ever deleted; a side becomes set exactly by the first call that presents a
\* path for it, and holds that path (without its extension).
C1_FirstPathKept ==
    [][\A u \in Uuids :
        /\ u \in DOMAIN lookup => u \in DOMAIN lookup'
        /\ u \in DOMAIN lookup' =>
              /\ Len(lookup'[u].added) <= 1
              /\ Len(lookup'[u].removed) <= 1
        /\ HasAdded(lookup, u) => lookup'[u].added = lookup[u].added
        /\ HasRemoved(lookup, u) => lookup'[u].removed = lookup[u].removed
        /\ (AddedStep /\ call'.uuid = u) => HasAdded(lookup', u)
        /\ (RemovedStep /\ call'.uuid = u) => HasRemoved(lookup', u)
        /\ (~HasAdded(lookup, u) /\ HasAdded(lookup', u)) =>
              /\ AddedStep /\ call'.uuid = u
              /\ lookup'[u].added = Some(set_extension(call'.path))
        /\ (~HasRemoved(lookup, u) /\ HasRemoved(lookup', u)) =>
              /\ RemovedStep /\ call'.uuid = u
              /\ lookup'[u].removed = Some(set_extension(call'.path))
    ]_vars

\* C1 witness: a second, different path was presented for a side that was
\* already set, and the first one is still stored.
C1_Witness ==
    /\ call.op = "added"
    /\ IsSome(call.returned)
    /\ call.returned # Some(set_extension(call.path))
    /\ lookup[call.uuid].added = call.returned
    /\ HasRemoved(lookup, call.uuid)

\* The entries of all identifiers but u are the same in both maps.
OthersUnchanged(before, after, u) ==
    \A v \in Uuids \ {u} :
        /\ v \in DOMAIN before <=> v \in DOMAIN after
        /\ v \in DOMAIN before => after[v] = before[v]

\* C4: added(id, path) stores the path and returns None when id has no added
\* fact, and otherwise returns the stored path and leaves the ledger as it
\* was; the removed side of id and all other entries are untouched.
\* removed(id, path) is symmetric.
C4_RecordFrame ==
    [][/\ AddedStep =>
            LET u == call'.uuid
            IN /\ IF HasAdded(lookup, u)
                  THEN call'.returned = lookup[u].added /\ lookup' = lookup
                  ELSE /\ call'.returned = None
                       /\ lookup'[u].added = Some(set_extension(call'.path))
               /\ lookup'[u].removed =
                      (IF u \in DOMAIN lookup THEN lookup[u].removed ELSE None)
               /\ OthersUnchanged(lookup, lookup', u)
       /\ RemovedStep =>
            LET u == call'.uuid
            IN /\ IF HasRemoved(lookup, u)
                  THEN call'.returned = lookup[u].removed /\ lookup' = lookup
                  ELSE /\ call'.returned = None
                       /\ lookup'[u].removed = Some(set_extension(call'.path))
               /\ lookup'[u].added =
                      (IF u \in DOMAIN lookup THEN lookup[u].added ELSE None)
               /\ OthersUnchanged(lookup, lookup', u)
    ]_vars

\* C4 witness: a removed call that stored its path for an identifier whose
\* added side was set, while another identifier had an entry.
C4_Witness ==
    /\ call.op = "removed"
    /\ call.returned = None
    /\ HasAdded(lookup, call.uuid)
    /\ lookup[call.uuid].removed = Some(set_extension(call.path))
    /\ \E v \in DOMAIN lookup : v # call.uuid

\* The node of each printed line: the depth of a line is the length of its
\* prefix, its parent the closest earlier line one level up.
RECURSIVE LineNodes(_)
LineNodes(lines) ==
    IF lines = <<>> THEN <<>>
    ELSE LET before == LineNodes(SubSeq(lines, 1, Len(lines) - 1))
             line == lines[Len(lines)]
             depth == Len(line.prefix)
             parent == IF depth = 1 THEN <<>>
                       ELSE SubSeq(before[Len(before)], 1, depth - 1)
         IN Append(before, Append(parent, line.path_element))

\* Pre-order with ascending children: a is printed before b.
RECURSIVE Before(_, _)
Before(a, b) ==
    IF a = <<>> THEN b # <<>>
    ELSE IF b = <<>> THEN FALSE
    ELSE IF Head(a) # Head(b) THEN Head(a) < Head(b)
    ELSE Before(Tail(a), Tail(b))

\* Every uuid on the tree has a ledger entry whose side for this tree holds
\* the path of the node that carries it.
LedgerCovers(tree, is_adding) ==
    \A n \in DOMAIN tree :
        IsSome(tree[n]) =>
            /\ unwrap(tree[n]) \in DOMAIN lookup
            /\ IF is_adding THEN lookup[unwrap(tree[n])].added = Some(n)
               ELSE lookup[unwrap(tree[n])].removed = Some(n)

\* An identifier with both facts has them at two different paths.
MovesChangePath ==
    \A u \in DOMAIN lookup :
        (IsSome(lookup[u].added) /\ IsSome(lookup[u].removed)) =>
            lookup[u].added # lookup[u].removed

\* The path elements shown in a highlighted text.
ShownPath(text) ==
    LET segs == SelectSeq(text, LAMBDA t : t.t = "seg")
    IN [i \in 1..Len(segs) |-> segs[i].v]

\* C6: a node without identifier gets no annotation; a node with identifier
\* u whose entry lacks the reference-side fact is annotated ADDED u (addition
\* tree) or REMOVED u (removal tree); if the reference-side fact is present
\* the node is annotated as a move showing the reference-side path.
C6_Annotation ==
    (/\ call.op = "debug_print"
     /\ LedgerCovers(root_entries, call.is_adding)
     /\ MovesChangePath) =>
        LET nodes == LineNodes(call.lines)
        IN \A n \in DOMAIN root_entries :
             \E i \in 1..Len(nodes) :
                /\ nodes[i] = n
                /\ LET line == call.lines[i]
                       id == root_entries[n]
                       reference == IF call.is_adding THEN lookup[unwrap(id)].removed
                                    ELSE lookup[unwrap(id)].added
                   IN IF id = None THEN line.kind = ""
                      ELSE IF reference = None
                      THEN /\ line.kind = (IF call.is_adding THEN "ADDED" ELSE "REMOVED")
                           /\ line.uuid = unwrap(id)
                      ELSE /\ line.kind = (IF call.is_adding THEN "<=" ELSE "=>")
                           /\ ShownPath(line.text) = unwrap(reference)

\* C8: the lines come in depth-first pre-order with the entries of every
\* node in ascending order of their names, none skipped, and the output is
\* the same whatever order the maps iterate in.
C8_SortedPreOrder ==
    call.op = "debug_print" =>
        LET nodes == LineNodes(call.lines)
            printed_nodes == { nodes[i] : i \in 1..Len(nodes) }
        IN /\ \A i \in 1..Len(nodes) : nodes[i] \in DOMAIN root_entries
           /\ \A i \in 1..(Len(nodes) - 1) : Before(nodes[i], nodes[i + 1])
           /\ \A n \in DOMAIN root_entries :
                 (\E m \in printed_nodes : Before(n, m)) => n \in printed_nodes
           /\ call.panic = "" => printed_nodes = DOMAIN root_entries
           /\ \A seed \in HashSeeds :
                 LET again == debug_print(root_entries, lookup, call.is_adding, seed)
                 IN again.lines = call.lines /\ again.panic = call.panic

\* C8 witness: a complete print, made with descending iteration order, of a
\* tree in which a node has several entries, every one of them printed.
C8_Witness ==
    /\ call.op = "debug_print"
    /\ call.seed = 1
    /\ call.panic = ""
    /\ \E n \in DOMAIN root_entries : Cardinality(entries(root_entries, n)) >= 2
    /\ Len(call.lines) = Cardinality(DOMAIN root_entries)

(***************************************************************************)
(* main.rs                                                                 *)
(***************************************************************************)

MaxDeltas == 2

\* The paths of the change records: metadata files at the top level.
DeltaPaths == { <<2 * m + 1>> : m \in Names }

\* A change record (DiffDelta) with the identifiers its contents resolve to:
\* uuid_from is read from the old blob, uuid_to from the new blob or, for an
\* untracked file, from the disk; None is a content without a parsable guid.
\* "Renamed" stands for every status main does not handle.
Statuses == {"Untracked", "Added", "Deleted", "Modified", "Renamed"}

OptionOf(S) == {None} \cup { Some(x) : x \in S }

Deltas ==
    { d \in [status : Statuses, old_path : OptionOf(DeltaPaths),
             new_path : OptionOf(DeltaPaths),
             uuid_from : OptionOf(Uuids), uuid_to : OptionOf(Uuids)] :
        \* a side without content has no identifier
        /\ d.status \in {"Untracked", "Added"} => d.uuid_from = None
        /\ d.status = "Deleted" => d.uuid_to = None
        /\ d.status = "Renamed" => d.uuid_from = None /\ d.uuid_to = None }

\* main.rs UuidStorageEntry::default()
DefaultVecEntry == [added |-> <<>>, removed |-> <<>>]

\* main.rs UuidStorage::get_node
get_node(map, uuid) ==
    IF uuid \in DOMAIN map THEN map
    ELSE [u \in DOMAIN map \cup {uuid} |-> IF u = uuid THEN DefaultVecEntry ELSE map[u]]

\* main.rs UuidStorage::added
main_added(map, uuid, path) ==
    LET node == get_node(map, uuid)
    IN [node EXCEPT ![uuid].added = Append(@, path)]

\* main.rs UuidStorage::removed
main_removed(map, uuid, path) ==
    LET node == get_node(map, uuid)
    IN [node EXCEPT ![uuid].removed = Append(@, path)]

\* The check at the head of the loop body: both paths set and equal.
paths_match(d) ==
    ~(d.new_path = None \/ d.old_path = None \/ d.new_path # d.old_path)

\* The comparison left out.
uuid_changed_always(uuid_from, uuid_to) == TRUE

\* if uuid_from != uuid_to
uuid_changed(uuid_from, uuid_to) == uuid_from # uuid_to

\* The body of the loop over the change records: the storage afterwards and
\* whether the body panicked.
process_delta(map, d) ==
    IF ~paths_match(d) THEN [storage |-> map, panic |-> TRUE]
    ELSE LET path == unwrap(d.old_path)
         IN CASE d.status \in {"Untracked", "Added"} ->
                    IF d.uuid_to = None THEN [storage |-> map, panic |-> TRUE]
                    ELSE [storage |-> main_added(map, unwrap(d.uuid_to), path),
                          panic |-> FALSE]
              [] d.status = "Deleted" ->
                    IF d.uuid_from = None THEN [storage |-> map, panic |-> TRUE]
                    ELSE [storage |-> main_removed(map, unwrap(d.uuid_from), path),
                          panic |-> FALSE]
              [] d.status = "Modified" ->
                    IF d.uuid_from = None \/ d.uuid_to = None
                    THEN [storage |-> map, panic |-> TRUE]
                    ELSE IF uuid_changed(unwrap(d.uuid_from), unwrap(d.uuid_to))
                    THEN [storage |->
                            main_added(main_removed(map, unwrap(d.uuid_from), path),
                                       unwrap(d.uuid_to), path),
                          panic |-> FALSE]
                    ELSE [storage |-> map, panic |-> FALSE]
              [] OTHER -> [storage |-> map, panic |-> TRUE]

\* main.rs UuidStorage::debug_print: the entries in ascending uuid order.
storage_debug_print(map, seed) ==
    LET list == sort_by_key(iter(DOMAIN map, seed))
    IN [i \in 1..Len(list) |->
           [uuid |-> list[i], removed |-> map[list[i]].removed,
            added |-> map[list[i]].added]]

MainInit ==
    /\ mpc = "loop" /\ uuid_storage = EmptyMap /\ delta = NoDelta
    /\ processed = 0 /\ printed = None
    /\ UuidIdle /\ DataIdle /\ HighlightIdle /\ ClassifierIdle

\* One iteration of `for delta in diffs.iter()`.
ProcessDelta(d) ==
    /\ mpc = "loop"
    /\ processed < MaxDeltas
    /\ LET r == process_delta(uuid_storage, d)
       IN /\ uuid_storage' = r.storage
          /\ mpc' = IF r.panic THEN "panicked" ELSE "loop"
    /\ delta' = d
    /\ processed' = processed + 1
    /\ UNCHANGED printed
    /\ UNCHANGED <<uuidVars, dataVars, highlightVars, classifierVars>>

\* The records are exhausted: uuid_storage.debug_print() and main returns.
PrintStorage(seed) ==
    /\ mpc = "loop"
    /\ printed' = storage_debug_print(uuid_storage, seed)
    /\ mpc' = "printed"
    /\ UNCHANGED <<uuid_storage, delta, processed>>
    /\ UNCHANGED <<uuidVars, dataVars, highlightVars, classifierVars>>

MainNext ==
    \/ \E d \in Deltas : ProcessDelta(d)
    \/ \E seed \in HashSeeds : PrintStorage(seed)

SpecMain == MainInit /\ [][MainNext]_vars

\* C3: when a record registers an added fact for an identifier that already
\* has one at another path, the ledger keeps the first path only (the new
\* path is not stored) and processing continues; symmetric for removed
\* facts.
C3_SecondPathDropped ==
    [][(/\ processed' = processed + 1
        /\ paths_match(delta')
        /\ delta'.status \in {"Untracked", "Added", "Deleted"}) =>
            LET is_added == delta'.status # "Deleted"
                id == IF is_added THEN delta'.uuid_to ELSE delta'.uuid_from
                side(map, u) == IF u \notin DOMAIN map THEN <<>>
                                ELSE IF is_added THEN map[u].added
                                ELSE map[u].removed
                path == unwrap(delta'.old_path)
            IN (/\ IsSome(id)
                /\ side(uuid_storage, unwrap(id)) # <<>>
                /\ Head(side(uuid_storage, unwrap(id))) # path) =>
                    /\ side(uuid_storage', unwrap(id)) = side(uuid_storage, unwrap(id))
                    /\ mpc' = "loop"
    ]_vars

\* C7: a modified record whose old and new contents resolve to the same
\* identifier causes no action: the ledger of main (its entries and its set
\* of identifiers) is exactly as before, and so are the UuidStorage and the
\* PathTreeStorage of data/, which main never touches.
C7_ModifiedSameUuid ==
    [][(/\ processed' = processed + 1
        /\ delta'.status = "Modified"
        /\ paths_match(delta')
        /\ IsSome(delta'.uuid_from)
        /\ delta'.uuid_from = delta'.uuid_to) =>
            /\ uuid_storage' = uuid_storage
            /\ lookup' = lookup /\ root_entries' = root_entries
            /\ mpc' = "loop"
    ]_vars

\* C7 witness: such a record was processed while the ledger held an entry.
C7_Witness ==
    /\ mpc = "loop"
    /\ delta.status = "Modified"
    /\ paths_match(delta)
    /\ IsSome(delta.uuid_from)
    /\ delta.uuid_from = delta.uuid_to
    /\ delta.uuid_from \in OptionOf(DOMAIN uuid_storage)

(***************************************************************************)
(* The classifier: change records routed into the ledger and the two trees *)
(***************************************************************************)

\* The paths of the change records the filter lets through: the text of each
\* ends with ".meta".  Besides the metadata files of InputPaths these are,
\* at the top level and in the directory, the file named ".meta" itself
\* (element 0: a name that starts with its only dot has no extension) and
\* ".meta.meta" (element 1: the same name followed by the extension).
RecordPaths ==
    InputPaths \cup { Append(d, e) : d \in DirPaths, e \in {0, 1} }

\* The change records: the paths are validated before any content is read,
\* so a record with absent or differing paths carries no identifier.
ChangeRecords ==
    { r \in [status : Statuses, old_path : OptionOf(RecordPaths),
             new_path : OptionOf(RecordPaths),
             uuid_from : OptionOf(Uuids), uuid_to : OptionOf(Uuids)] :
        /\ r.status \in {"Untracked", "Added"} => r.uuid_from = None
        /\ r.status = "Deleted" => r.uuid_to = None
        /\ r.status = "Renamed" => r.uuid_from = None /\ r.uuid_to = None
        /\ ~paths_match(r) => r.uuid_from = None /\ r.uuid_to = None }

\* What the classifier owns: the ledger, the two trees, the warnings
\* emitted so far and the fatal error that ended the run ("" while it runs).
Classification(map, additions, removals, warned, fatal) ==
    [ledger |-> map, addition_tree |-> additions, removal_tree |-> removals,
     warnings |-> warned, fatal |-> fatal]

\* The fatal error a panic of add_to_tree stands for.
FatalOf(panic) ==
    IF panic = "two UUIDs" THEN "DuplicateAssignment"
    ELSE IF panic = "unwrap" THEN "EmptyPath"
    ELSE ""

\* Register as "added": record the fact in the ledger; on a conflict warn
\* and leave the tree alone, otherwise insert into the addition tree.
register_added(c, uuid, path) ==
    LET r == added(c.ledger, uuid, path)
    IN IF IsSome(r.returned)
       THEN [c EXCEPT !.ledger = r.lookup, !.warnings = @ + 1]
       ELSE LET t == add_to_tree(c.addition_tree, path, uuid)
            IN [c EXCEPT !.ledger = r.lookup, !.addition_tree = t.tree,
                         !.fatal = FatalOf(t.panic)]

\* Register as "removed": the same against the removal tree.
register_removed(c, uuid, path) ==
    LET r == removed(c.ledger, uuid, path)
    IN IF IsSome(r.returned)
       THEN [c EXCEPT !.ledger = r.lookup, !.warnings = @ + 1]
       ELSE LET t == add_to_tree(c.removal_tree, path, uuid)
            IN [c EXCEPT !.ledger = r.lookup, !.removal_tree = t.tree,
                         !.fatal = FatalOf(t.panic)]

\* One change record classified: validation, dispatch on the kind,
\* registration; a fatal error leaves what was done before it in place.
classify(c, r) ==
    IF ~paths_match(r)
    THEN [c EXCEPT !.fatal = "UnexpectedRename"]
    ELSE LET path == unwrap(r.old_path)
         IN CASE r.status \in {"Untracked", "Added"} ->
                   IF r.uuid_to = None
                   THEN [c EXCEPT !.fatal = "MissingIdentifier"]
                   ELSE register_added(c, unwrap(r.uuid_to), path)
              [] r.status = "Deleted" ->
                   IF r.uuid_from = None
                   THEN [c EXCEPT !.fatal = "MissingIdentifier"]
                   ELSE register_removed(c, unwrap(r.uuid_from), path)
              [] r.status = "Modified" ->
                   IF r.uuid_from = None \/ r.uuid_to = None
                   THEN [c EXCEPT !.fatal = "MissingIdentifier"]
                   ELSE IF r.uuid_from = r.uuid_to
                   THEN c
                   ELSE LET a == register_added(c, unwrap(r.uuid_to), path)
                        IN IF a.fatal # ""
                           THEN a
                           ELSE register_removed(a, unwrap(r.uuid_from), path)
              [] OTHER -> [c EXCEPT !.fatal = "UnsupportedChangeKind"]

ClassifierInit ==
    /\ cpc = "classify" /\ ledger = EmptyMap
    /\ addition_tree = EmptyMap /\ removal_tree = EmptyMap
    /\ warnings = 0 /\ classified = 0
    /\ UuidIdle /\ DataIdle /\ HighlightIdle /\ MainIdle

\* The classification pass takes the next change record.
Classify(r) ==
    /\ cpc = "classify"
    /\ classified < MaxDeltas
    /\ LET c == classify(Classification(ledger, addition_tree, removal_tree,
                                        warnings, ""), r)
       IN /\ ledger' = c.ledger
          /\ addition_tree' = c.addition_tree
          /\ removal_tree' = c.removal_tree
          /\ warnings' = c.warnings
          /\ cpc' = IF c.fatal = "" THEN "classify" ELSE c.fatal
    /\ classified' = classified + 1
    /\ UNCHANGED <<uuidVars, dataVars, highlightVars, mainVars>>

ClassifierNext == \E r \in ChangeRecords : Classify(r)

SpecClassifier == ClassifierInit /\ [][ClassifierNext]_vars

\* C11: whatever change records the classifier processes, inserting into a
\* tree only after the ledger reported no conflict for the identifier and
\* side, add_to_tree never finds an identifier on the node it is to set:
\* the run never ends in the fatal DuplicateAssignment.
C11_NoDuplicateAssignment == cpc # "DuplicateAssignment"

\* The fact of the ledger entry a tree draws on: the added fact for the
\* addition tree, the removed fact for the removal tree.
OwnFact(storage_entry, is_adding) ==
    IF is_adding THEN storage_entry.added ELSE storage_entry.removed

\* Every identifier on a node of the tree has a ledger entry whose fact for
\* this tree is set and is the full path of that node.
NodesInLedger(tree, is_adding) ==
    \A n \in DOMAIN tree :
        IsSome(tree[n]) =>
            /\ unwrap(tree[n]) \in DOMAIN ledger
            /\ OwnFact(ledger[unwrap(tree[n])], is_adding) = Some(n)

\* An identifier is on at most one node of the tree.
OneNodePerUuid(tree) ==
    \A n1, n2 \in DOMAIN tree :
        (IsSome(tree[n1]) /\ tree[n1] = tree[n2]) => n1 = n2

\* Printing the tree against the ledger does not stop at the lookup of a
\* node's identifier or at the unwrap of the fact of the tree's own side.
PrintFindsLedger(tree, is_adding) ==
    \A seed \in HashSeeds : debug_print(tree, ledger, is_adding, seed).panic # "unwrap"

AddToTreeStep == calls' = calls + 1 /\ call'.op = "add_to_tree"

\* a is a prefix of b (a itself included).
IsPrefix(a, b) == Len(a) <= Len(b) /\ SubSeq(b, 1, Len(a)) = a

\* The nodes that carry an identifier, each with its identifier.
UuidNodes(tree) == { <<n, unwrap(tree[n])>> : n \in { m \in DOMAIN tree : IsSome(tree[m]) } }

\* C13: add_to_tree(path, uuid) with a non-empty path whose last node carries
\* no identifier succeeds, and afterwards there is a node for every prefix
\* of the stripped path, the last node carries uuid, the nodes it had to
\* create on the way carry none, and every node there was before is still
\* there with its identifier (but for the last node, which gained one) and
\* its children.  So the nodes with an identifier grow by exactly the
\* inserted pair at each successful insert and by nothing otherwise, and
\* after successful inserts every node is a prefix of an inserted path.
C13_InsertFrame ==
    [][ /\ (AddToTreeStep
            /\ LET p == set_extension(call'.path)
               IN Len(p) > 0 /\ (p \in DOMAIN root_entries => root_entries[p] = None))
           => LET p == set_extension(call'.path)
              IN /\ call'.panic = ""
                 /\ \A i \in 1..Len(p) : SubSeq(p, 1, i) \in DOMAIN root_entries'
                 /\ root_entries'[p] = Some(call'.uuid)
                 /\ \A n \in DOMAIN root_entries' \ DOMAIN root_entries :
                        IsPrefix(n, p) /\ (n # p => root_entries'[n] = None)
                 /\ \A n \in DOMAIN root_entries :
                        /\ n \in DOMAIN root_entries'
                        /\ n # p => root_entries'[n] = root_entries[n]
                        /\ entries(root_entries, n) \subseteq entries(root_entries', n)
                 /\ UuidNodes(root_entries') =
                        UuidNodes(root_entries) \cup {<<p, call'.uuid>>}
                 /\ \A n \in DOMAIN root_entries' :
                        \E m \in UuidNodes(root_entries') : IsPrefix(n, m[1])
        /\ ~(AddToTreeStep /\ call'.panic = "")
           => UuidNodes(root_entries') = UuidNodes(root_entries) ]_vars

\* C13 witness: an insert below a node that already carried an identifier
\* succeeded, and that node still carries it.
C13_Witness ==
    /\ call.op = "add_to_tree" /\ call.panic = ""
    /\ Len(call.path) = 2
    /\ root_entries[set_extension(call.path)] = Some(call.uuid)
    /\ IsSome(root_entries[SubSeq(call.path, 1, 1)])

====
